---- MODULE Spec2Model ----
(***************************************************************************)
(* MCServerControl (src/MCServer.py): a cog that supervises one minecraft  *)
(* server process, talks to it over RCON and reports on it.                *)
(*                                                                         *)
(* The command handlers are coroutines on one asyncio event loop.  A       *)
(* handler runs alone until it reaches an await that really suspends        *)
(* (ctx.send, asyncio.create_subprocess_shell, asyncio.sleep); the awaits   *)
(* of _init_rcon, _stop_rcon and _execute_mc_command never suspend, their   *)
(* bodies being synchronous.  The variable cur names the handler that       *)
(* holds the loop between two suspensions (None when the loop is free).     *)
(***************************************************************************)
EXTENDS Integers, Sequences, FiniteSets, TLC

\* ---- bounds ----
NumTasks == 2       \* handler invocations that can be in flight together
MaxProcs == 2       \* processes spawned in one behaviour
MaxSessions == 2    \* RCONClient objects created in one behaviour
MaxCalls == 3       \* handler invocations begun in one behaviour
MaxQueries == 1     \* of which info, players and join invocations

None == 0
Tasks == 1..NumTasks
Pids == 1..MaxProcs
Sids == 1..MaxSessions

\* ---- messages sent with ctx.send, exception types ----
MsgStarting == "Server starting up..."
MsgAlready == "Server already started!"
MsgStopping == "Stopping server..."
MsgStopped == "Server stopped"
MsgOffline == "Server is not online"
MsgResponse == "Server responded with the following:"
MsgBadAuth == "Invalid Authentication"
MsgRefused == "Server refused rcon, is rcon enabled?"
MsgInfoOnline == "Server is online"
MsgInfoOffline == "Server is offline, run mc-start to start it"
MsgPlayers == "out of max online"
MsgNoPlayers == "No players online"
MsgQueryRefused == "Server refused query, is query enabled?"
MsgJoin == "The server can be joined by typing the server address"

\* what RCONClient.login meets: accepted, rejected password, connection
\* refused (a ConnectionError), host unresolvable (socket.gaierror)
LoginOutcomes == {"ok", "authfail", "refused", "dns"}
\* what RCONClient.command meets: a response text (possibly empty) or a
\* connection that breaks while sending (a ConnectionError)
CommandOutcomes == {"empty", "text", "sendfail"}
\* what a query of the server meets: an answer, a refused connection (a
\* ConnectionError), an unresolvable host (socket.gaierror), no answer in
\* time (a TimeoutError)
NetStates == {"up", "refused", "dns", "timeout"}
\* the player names an answered query carries: none or some
PlayerCounts == {0, 1}

VARIABLES
    server_proc,  \* self.server_proc: None or the pid of the handle held
    rcon,         \* self.rcon: None or the session id of the RCONClient stored
    proc,         \* pid -> "unspawned" | "alive" | "exited" | "reaped"
    sess,         \* sid -> [st, logins, cmds]: state of every RCONClient created
    pc,           \* task -> position of the handler
    op,           \* task -> "none" | "start" | "stop" | "exec" | "info" |
                  \*         "players" | "join"
    inv,          \* task -> what the current invocation has done so far
    reply,        \* task -> messages the current invocation sent
    err,          \* task -> exception that left the handler ("none" if none)
    cur,          \* task holding the event loop, or None
    calls,        \* invocations begun so far
    queries       \* info, players and join invocations begun so far

vars == <<server_proc, rcon, proc, sess, pc, op, inv, reply, err, cur, calls, queries>>

\* record of one invocation
NoInv == [held |-> FALSE, pid |-> None, spawns |-> 0, login |-> "none",
          command |-> "none", sid |-> None, slept |-> FALSE, kills |-> 0,
          atWake |-> "na", conc |-> {}, spawnedAtBegin |-> 0, raised |-> "none",
          net |-> "none", queried |-> FALSE]

NoSess == [st |-> "unused", logins |-> 0, cmds |-> 0]

Spawned == {p \in Pids : proc[p] # "unspawned"}
Created == {s \in Sids : sess[s].st # "unused"}
\* sessions whose socket is connected and not closed
OpenSessions == {s \in Sids : sess[s].st \in {"connected", "authed"}}

\* __init__: no rcon client, no process
Init ==
    /\ server_proc = None
    /\ rcon = None
    /\ proc = [p \in Pids |-> "unspawned"]
    /\ sess = [s \in Sids |-> NoSess]
    /\ pc = [t \in Tasks |-> "idle"]
    /\ op = [t \in Tasks |-> "none"]
    /\ inv = [t \in Tasks |-> NoInv]
    /\ reply = [t \in Tasks |-> <<>>]
    /\ err = [t \in Tasks |-> "none"]
    /\ cur = None
    /\ calls = 0
    /\ queries = 0

\* _online reading the rcon client instead of the process handle
OnlineByRcon == rcon # None

\* _online: the server counts as online iff a handle is held
_online == server_proc # None

\* the event loop hands a new invocation to task t, the first free one
\* (tasks are interchangeable)
CanBegin(t) ==
    /\ pc[t] = "idle"
    /\ \A u \in Tasks : u < t => pc[u] # "idle"
    /\ cur = None
    /\ calls < MaxCalls

\* the same for a handler that only reads
CanBeginQuery(t) ==
    /\ pc[t] = "idle"
    /\ \A u \in Tasks : u < t => pc[u] # "idle"
    /\ cur = None
    /\ calls < MaxCalls
    /\ queries < MaxQueries

\* tasks whose stop invocation is in progress
StopsInProgress == {u \in Tasks : op[u] = "stop" /\ pc[u] \notin {"idle", "done"}}

Begin(t, o) ==
    /\ op' = [op EXCEPT ![t] = o]
    /\ calls' = calls + 1
    /\ queries' = queries
    /\ err' = [err EXCEPT ![t] = "none"]

BeginQuery(t, o) ==
    /\ op' = [op EXCEPT ![t] = o]
    /\ calls' = calls + 1
    /\ queries' = queries + 1
    /\ err' = [err EXCEPT ![t] = "none"]

\* ---- _start ----

\* _start spawning without looking at the handle
StartAlwaysSpawns == TRUE

\* line 125: the branch that spawns
StartShouldSpawn == _online = FALSE

\* lines 125-128 up to the suspension in create_subprocess_shell (the child
\* is forked before the coroutine first suspends), or lines 130-131
StartBegin(t) ==
    /\ CanBegin(t)
    /\ Begin(t, "start")
    /\ IF StartShouldSpawn
       THEN \E p \in Pids :
              /\ proc[p] = "unspawned"
              /\ \A q \in Pids : q < p => proc[q] # "unspawned"
              /\ proc' = [proc EXCEPT ![p] = "alive"]
              /\ inv' = [inv EXCEPT ![t] = [NoInv EXCEPT !.held = _online, !.pid = p,
                                                  !.spawns = 1,
                                                  !.spawnedAtBegin = Cardinality(Spawned)]]
              /\ pc' = [pc EXCEPT ![t] = "start_126"]
              /\ reply' = [reply EXCEPT ![t] = <<>>]
       ELSE /\ proc' = proc
            /\ inv' = [inv EXCEPT ![t] = [NoInv EXCEPT !.held = _online, !.pid = server_proc,
                                                !.spawnedAtBegin = Cardinality(Spawned)]]
            /\ pc' = [pc EXCEPT ![t] = "start_131"]
            /\ reply' = [reply EXCEPT ![t] = <<MsgAlready>>]
    /\ UNCHANGED <<server_proc, rcon, sess, cur>>

\* line 126 resumes: the handle is stored; line 129 sends and suspends
StartStore(t) ==
    /\ pc[t] = "start_126"
    /\ cur = None
    /\ server_proc' = inv[t].pid
    /\ reply' = [reply EXCEPT ![t] = Append(@, MsgStarting)]
    /\ pc' = [pc EXCEPT ![t] = "start_129"]
    /\ UNCHANGED <<rcon, proc, sess, op, inv, err, cur, calls, queries>>

\* ---- _init_rcon, _execute_mc_command, _stop_rcon ----

\* Python evaluates `A or B` to A when A is truthy; a class object is truthy
PyOr(a, b) == IF a # "" THEN a ELSE b

\* line 95: the classes the except clause of _init_rcon names
InitRconExcept == PyOr("ConnectionError", "gaierror")

\* an exception leaves _execute_mc_command while task t runs it: _stop has no
\* handler (line 144); _exec catches RCONFailedError and sends its text
\* (lines 247-248); anything else leaves the command handler
Leave(t, e, msg) ==
    /\ IF op[t] = "exec" /\ e = "RCONFailedError"
       THEN /\ pc' = [pc EXCEPT ![t] = "exec_248"]
            /\ reply' = [reply EXCEPT ![t] = Append(@, msg)]
            /\ err' = err
       ELSE /\ pc' = [pc EXCEPT ![t] = "done"]
            /\ reply' = reply
            /\ err' = [err EXCEPT ![t] = e]
    /\ cur' = None

\* _init_rcon keeping a client that is still stored in self.rcon
StoredClient(s) ==
    IF rcon # None
    THEN s = rcon
    ELSE /\ sess[s].st = "unused"
         /\ \A r \in Sids : r < s => sess[r].st # "unused"

\* line 91: RCONClient(...) constructs a client that did not exist before
NewClient(s) ==
    /\ sess[s].st = "unused"
    /\ \A r \in Sids : r < s => sess[r].st # "unused"

\* line 91: a new RCONClient is stored in self.rcon (no socket yet)
RconCreate(t) ==
    /\ pc[t] = "init_rcon"
    /\ cur = t
    /\ \E s \in Sids :
         /\ NewClient(s)
         /\ sess' = [sess EXCEPT ![s].st = "new"]
         /\ rcon' = s
         /\ inv' = [inv EXCEPT ![t].sid = s]
    /\ pc' = [pc EXCEPT ![t] = "login"]
    /\ UNCHANGED <<server_proc, proc, op, reply, err, cur, calls, queries>>

\* line 92: the exception RCONClient.login raises on outcome o ("none" when
\* it returns True or False)
LoginError(o) ==
    CASE o = "refused" -> "ConnectionError"
      [] o = "dns" -> "gaierror"
      [] OTHER -> "none"

\* _init_rcon not looking at what login returned
InitRconIgnoresLogin(o) ==
    CASE o \in {"ok", "authfail"} -> "none"
      [] OTHER -> IF LoginError(o) = InitRconExcept
                  THEN "RCONFailedError"
                  ELSE LoginError(o)

\* lines 90-96: the exception that leaves _init_rcon on outcome o.  The
\* RCONFailedError of line 94 is not a ConnectionError and passes line 95;
\* gaierror is an OSError that is not a ConnectionError
InitRconRaises(o) ==
    CASE o = "ok" -> "none"
      [] o = "authfail" -> "RCONFailedError"
      [] OTHER -> IF LoginError(o) = InitRconExcept
                  THEN "RCONFailedError"
                  ELSE LoginError(o)

\* lines 94 and 96: the text of the RCONFailedError
InitRconMsg(o) == IF o = "authfail" THEN MsgBadAuth ELSE MsgRefused

\* lines 92-96: login connects and authenticates; a rejected password leaves
\* the socket connected, a refused or unresolved connection leaves none
RconLogin(t) ==
    /\ pc[t] = "login"
    /\ cur = t
    /\ \E o \in LoginOutcomes :
         /\ inv' = [inv EXCEPT ![t].login = o, ![t].raised = InitRconRaises(o)]
         /\ sess' = [sess EXCEPT ![rcon].logins = @ + 1,
                                  ![rcon].st =
                                      CASE o = "ok" -> "authed"
                                        [] o = "authfail" -> "connected"
                                        [] OTHER -> @]
         /\ IF InitRconRaises(o) = "none"
            THEN /\ pc' = [pc EXCEPT ![t] = "command"]
                 /\ UNCHANGED <<reply, err, cur>>
            ELSE Leave(t, InitRconRaises(o), InitRconMsg(o))
    /\ UNCHANGED <<server_proc, rcon, proc, op, calls, queries>>

\* line 226: the command goes over the session in self.rcon
RconCommand(t) ==
    /\ pc[t] = "command"
    /\ cur = t
    /\ sess' = [sess EXCEPT ![rcon].cmds = @ + 1]
    /\ \E o \in CommandOutcomes :
         /\ inv' = [inv EXCEPT ![t].command = o,
                                ![t].raised = IF o = "sendfail" THEN "ConnectionError"
                                                                ELSE "none"]
         /\ IF o = "sendfail"
            THEN Leave(t, "ConnectionError", "")
            ELSE /\ pc' = [pc EXCEPT ![t] = "stop_rcon"]
                 /\ UNCHANGED <<reply, err, cur>>
    /\ UNCHANGED <<server_proc, rcon, proc, op, calls, queries>>

\* _stop_rcon dropping the client without closing its socket
RconLeftOpen == "authed"

\* line 103: self.rcon.stop() closes the session
RconStopState == "closed"

\* a sleep that keeps the event loop (time.sleep) for the whole wait
BlockingSleepHolder(t) == t

\* line 145: the holder of the event loop while task t is in
\* asyncio.sleep, which suspends the handler and frees the loop
SleepHolder(t) == None

\* lines 103-104 and 228, then the caller goes on: _stop reaches the sleep of
\* line 145, _exec sends a non-empty response (lines 245-246)
RconStop(t) ==
    /\ pc[t] = "stop_rcon"
    /\ cur = t
    /\ sess' = [sess EXCEPT ![rcon].st = RconStopState]
    /\ rcon' = None
    /\ cur' = IF op[t] = "stop" THEN SleepHolder(t) ELSE None
    /\ IF op[t] = "stop"
       THEN /\ pc' = [pc EXCEPT ![t] = "stop_145"]
            /\ reply' = reply
       ELSE IF inv[t].command # "empty"
            THEN /\ pc' = [pc EXCEPT ![t] = "exec_246"]
                 /\ reply' = [reply EXCEPT ![t] = Append(@, MsgResponse)]
            ELSE /\ pc' = [pc EXCEPT ![t] = "done"]
                 /\ reply' = reply
    /\ UNCHANGED <<server_proc, proc, op, inv, err, calls, queries>>

\* ---- _stop ----

\* _stop running its sequence without looking at the handle
StopAlwaysRuns == TRUE

\* line 142: the branch that stops
StopShouldRun == _online

\* line 142, then line 143 sends and suspends, or line 154
StopBegin(t) ==
    /\ CanBegin(t)
    /\ Begin(t, "stop")
    /\ IF StopShouldRun
       THEN /\ inv' = [u \in Tasks |->
                         IF u = t
                         THEN [NoInv EXCEPT !.held = _online, !.pid = server_proc,
                                            !.conc = StopsInProgress,
                                            !.spawnedAtBegin = Cardinality(Spawned)]
                         ELSE IF u \in StopsInProgress
                              THEN [inv[u] EXCEPT !.conc = @ \cup {t}]
                              ELSE inv[u]]
            /\ pc' = [pc EXCEPT ![t] = "stop_143"]
            /\ reply' = [reply EXCEPT ![t] = <<MsgStopping>>]
       ELSE /\ inv' = [inv EXCEPT ![t] = [NoInv EXCEPT !.held = _online,
                                                !.spawnedAtBegin = Cardinality(Spawned)]]
            /\ pc' = [pc EXCEPT ![t] = "stop_154"]
            /\ reply' = [reply EXCEPT ![t] = <<MsgOffline>>]
    /\ UNCHANGED <<server_proc, rcon, proc, sess, cur>>

\* line 143 resumes and line 144 enters _execute_mc_command("stop")
StopExecute(t) ==
    /\ pc[t] = "stop_143"
    /\ cur = None
    /\ Created # Sids
    /\ cur' = t
    /\ pc' = [pc EXCEPT ![t] = "init_rcon"]
    /\ UNCHANGED <<server_proc, rcon, proc, sess, op, inv, reply, err, calls, queries>>

\* lines 145-151: the sleep is over and self.server_proc.kill() is called.
\* Process.kill is a plain method that returns None: on a process that is
\* alive it delivers the signal, on one that exited but whose transport is
\* still open it does nothing, and in both cases awaiting its None raises
\* TypeError; on a transport that has been closed it raises
\* ProcessLookupError, which line 149 swallows; on a handle that was cleared
\* meanwhile the attribute lookup raises AttributeError
StopWake(t) ==
    /\ pc[t] = "stop_145"
    /\ cur = SleepHolder(t)
    /\ cur' = None
    /\ IF server_proc = None
       THEN /\ inv' = [inv EXCEPT ![t].slept = TRUE, ![t].atWake = "cleared"]
            /\ pc' = [pc EXCEPT ![t] = "done"]
            /\ err' = [err EXCEPT ![t] = "AttributeError"]
            /\ UNCHANGED <<proc, reply>>
       ELSE /\ inv' = [inv EXCEPT ![t].slept = TRUE, ![t].kills = @ + 1,
                                  ![t].atWake = proc[server_proc]]
            /\ CASE proc[server_proc] = "alive" ->
                      /\ proc' = [proc EXCEPT ![server_proc] = "exited"]
                      /\ pc' = [pc EXCEPT ![t] = "done"]
                      /\ err' = [err EXCEPT ![t] = "TypeError"]
                      /\ reply' = reply
                 [] proc[server_proc] = "exited" ->
                      /\ pc' = [pc EXCEPT ![t] = "done"]
                      /\ err' = [err EXCEPT ![t] = "TypeError"]
                      /\ UNCHANGED <<proc, reply>>
                 [] OTHER ->
                      /\ pc' = [pc EXCEPT ![t] = "stop_151"]
                      /\ reply' = [reply EXCEPT ![t] = Append(@, MsgStopped)]
                      /\ UNCHANGED <<proc, err>>
    /\ UNCHANGED <<server_proc, rcon, sess, op, calls, queries>>

\* line 151 resumes and line 152 clears the handle
StopClear(t) ==
    /\ pc[t] = "stop_151"
    /\ cur = None
    /\ server_proc' = None
    /\ pc' = [pc EXCEPT ![t] = "done"]
    /\ UNCHANGED <<rcon, proc, sess, op, inv, reply, err, cur, calls, queries>>

\* ---- _exec ----

\* lines 241-244 enter _execute_mc_command without suspending, or line 250
ExecBegin(t) ==
    /\ CanBegin(t)
    /\ Begin(t, "exec")
    /\ IF _online
       THEN /\ Created # Sids
            /\ cur' = t
            /\ pc' = [pc EXCEPT ![t] = "init_rcon"]
            /\ reply' = [reply EXCEPT ![t] = <<>>]
       ELSE /\ cur' = cur
            /\ pc' = [pc EXCEPT ![t] = "exec_250"]
            /\ reply' = [reply EXCEPT ![t] = <<MsgOffline>>]
    /\ inv' = [inv EXCEPT ![t] = [NoInv EXCEPT !.held = _online, !.pid = server_proc,
                                        !.spawnedAtBegin = Cardinality(Spawned)]]
    /\ UNCHANGED <<server_proc, rcon, proc, sess>>

\* ---- _info, _players, _join ----

\* the exception a query raises when the server is in network state n
QueryError(n) ==
    CASE n = "refused" -> "ConnectionError"
      [] n = "dns" -> "gaierror"
      [] n = "timeout" -> "TimeoutError"
      [] OTHER -> "none"

\* line 176: the classes the except clause of _info names
InfoExcept == PyOr("ConnectionError", "gaierror")

\* line 198: the classes the except clause of _players names
PlayersExcept == PyOr(PyOr("ConnectionError", "TimeoutError"), "gaierror")

\* the exception that leaves a query handler whose except clause names
\* class c when the server is in network state n (no class of QueryError is
\* a subclass of another)
QueryRaises(c, n) == IF QueryError(n) = c THEN "none" ELSE QueryError(n)

\* lines 165-169: the embed is built and async_status suspends; the server
\* is in network state n for this invocation
InfoBegin(t) ==
    /\ CanBeginQuery(t)
    /\ BeginQuery(t, "info")
    /\ \E n \in NetStates :
         inv' = [inv EXCEPT ![t] = [NoInv EXCEPT !.held = _online, !.pid = server_proc,
                                          !.net = n, !.conc = StopsInProgress,
                                          !.spawnedAtBegin = Cardinality(Spawned)]]
    /\ pc' = [pc EXCEPT ![t] = "info_169"]
    /\ reply' = [reply EXCEPT ![t] = <<>>]
    /\ UNCHANGED <<server_proc, rcon, proc, sess, cur>>

\* lines 169-179: async_status answers or raises; the embed is sent unless
\* the exception is not the one line 176 catches
InfoStatus(t) ==
    /\ pc[t] = "info_169"
    /\ cur = None
    /\ inv' = [inv EXCEPT ![t].queried = TRUE,
                           ![t].raised = QueryRaises(InfoExcept, inv[t].net)]
    /\ IF QueryRaises(InfoExcept, inv[t].net) = "none"
       THEN /\ pc' = [pc EXCEPT ![t] = "info_179"]
            /\ reply' = [reply EXCEPT ![t] =
                           <<IF inv[t].net = "up" THEN MsgInfoOnline ELSE MsgInfoOffline>>]
            /\ err' = err
       ELSE /\ pc' = [pc EXCEPT ![t] = "done"]
            /\ reply' = reply
            /\ err' = [err EXCEPT ![t] = QueryRaises(InfoExcept, inv[t].net)]
    /\ UNCHANGED <<server_proc, rcon, proc, sess, op, cur, calls, queries>>

\* _players querying without looking at the handle
PlayersAlwaysQuery == TRUE

\* line 190: the branch of _players that queries
PlayersShouldQuery == _online

\* lines 190-192: async_query suspends, or line 201
PlayersBegin(t) ==
    /\ CanBeginQuery(t)
    /\ BeginQuery(t, "players")
    /\ \E n \in NetStates :
         inv' = [inv EXCEPT ![t] = [NoInv EXCEPT !.held = _online, !.pid = server_proc,
                                          !.net = n,
                                          !.spawnedAtBegin = Cardinality(Spawned)]]
    /\ IF PlayersShouldQuery
       THEN /\ pc' = [pc EXCEPT ![t] = "players_192"]
            /\ reply' = [reply EXCEPT ![t] = <<>>]
       ELSE /\ pc' = [pc EXCEPT ![t] = "players_201"]
            /\ reply' = [reply EXCEPT ![t] = <<MsgOffline>>]
    /\ UNCHANGED <<server_proc, rcon, proc, sess, cur>>

\* lines 192-199: async_query answers with k names or raises
PlayersQuery(t) ==
    /\ pc[t] = "players_192"
    /\ cur = None
    /\ inv' = [inv EXCEPT ![t].queried = TRUE,
                           ![t].raised = QueryRaises(PlayersExcept, inv[t].net)]
    /\ IF inv[t].net = "up"
       THEN \E k \in PlayerCounts :
              /\ pc' = [pc EXCEPT ![t] = IF k > 0 THEN "players_195" ELSE "players_197"]
              /\ reply' = [reply EXCEPT ![t] = <<IF k > 0 THEN MsgPlayers ELSE MsgNoPlayers>>]
              /\ err' = err
       ELSE IF QueryRaises(PlayersExcept, inv[t].net) = "none"
            THEN /\ pc' = [pc EXCEPT ![t] = "players_199"]
                 /\ reply' = [reply EXCEPT ![t] = <<MsgQueryRefused>>]
                 /\ err' = err
            ELSE /\ pc' = [pc EXCEPT ![t] = "done"]
                 /\ reply' = reply
                 /\ err' = [err EXCEPT ![t] = QueryRaises(PlayersExcept, inv[t].net)]
    /\ UNCHANGED <<server_proc, rcon, proc, sess, op, cur, calls, queries>>

\* lines 212-213: the address is sent
JoinBegin(t) ==
    /\ CanBeginQuery(t)
    /\ BeginQuery(t, "join")
    /\ inv' = [inv EXCEPT ![t] = [NoInv EXCEPT !.held = _online, !.pid = server_proc,
                                        !.spawnedAtBegin = Cardinality(Spawned)]]
    /\ pc' = [pc EXCEPT ![t] = "join_212"]
    /\ reply' = [reply EXCEPT ![t] = <<MsgJoin>>]
    /\ UNCHANGED <<server_proc, rcon, proc, sess, cur>>

\* ---- the child process ----

\* the server process exits (after the stop command, or by itself)
ProcExit(p) ==
    /\ proc[p] = "alive"
    /\ proc' = [proc EXCEPT ![p] = "exited"]
    /\ UNCHANGED <<server_proc, rcon, sess, pc, op, inv, reply, err, cur, calls, queries>>

\* the event loop sees the exit and the closed pipe and drops the
\* transport's process (BaseSubprocessTransport._proc = None)
ProcReaped(p) ==
    /\ proc[p] = "exited"
    /\ cur = None
    /\ proc' = [proc EXCEPT ![p] = "reaped"]
    /\ UNCHANGED <<server_proc, rcon, sess, pc, op, inv, reply, err, cur, calls, queries>>

\* ---- the handler ends after its last ctx.send ----
LastSends == {"start_129", "start_131", "stop_154", "exec_246", "exec_248", "exec_250",
              "info_179", "players_195", "players_197", "players_199", "players_201",
              "join_212"}

Finish(t) ==
    /\ pc[t] \in LastSends
    /\ cur = None
    /\ pc' = [pc EXCEPT ![t] = "done"]
    /\ UNCHANGED <<server_proc, rcon, proc, sess, op, inv, reply, err, cur, calls, queries>>

\* the task is free for the next invocation
Return(t) ==
    /\ pc[t] = "done"
    /\ pc' = [pc EXCEPT ![t] = "idle"]
    /\ op' = [op EXCEPT ![t] = "none"]
    /\ inv' = [u \in Tasks |-> IF u = t THEN NoInv
                               ELSE [inv[u] EXCEPT !.conc = @ \ {t}]]
    /\ reply' = [reply EXCEPT ![t] = <<>>]
    /\ err' = [err EXCEPT ![t] = "none"]
    /\ UNCHANGED <<server_proc, rcon, proc, sess, cur, calls, queries>>

Next ==
    \/ \E t \in Tasks : StartBegin(t)
    \/ \E t \in Tasks : StartStore(t)
    \/ \E t \in Tasks : StopBegin(t)
    \/ \E t \in Tasks : StopExecute(t)
    \/ \E t \in Tasks : StopWake(t)
    \/ \E t \in Tasks : StopClear(t)
    \/ \E t \in Tasks : ExecBegin(t)
    \/ \E t \in Tasks : RconCreate(t)
    \/ \E t \in Tasks : RconLogin(t)
    \/ \E t \in Tasks : RconCommand(t)
    \/ \E t \in Tasks : RconStop(t)
    \/ \E t \in Tasks : Finish(t)
    \/ \E t \in Tasks : Return(t)
    \/ \E p \in Pids : ProcExit(p)
    \/ \E p \in Pids : ProcReaped(p)

\* start, stop and exec commands only
Spec == Init /\ [][Next]_vars

\* the cog some time after a start command has completed: the handle of a
\* running process is held and no handler is in flight
InitHeld ==
    /\ server_proc = 1
    /\ rcon = None
    /\ proc = [p \in Pids |-> IF p = 1 THEN "alive" ELSE "unspawned"]
    /\ sess = [s \in Sids |-> NoSess]
    /\ pc = [t \in Tasks |-> "idle"]
    /\ op = [t \in Tasks |-> "none"]
    /\ inv = [t \in Tasks |-> NoInv]
    /\ reply = [t \in Tasks |-> <<>>]
    /\ err = [t \in Tasks |-> "none"]
    /\ cur = None
    /\ calls = 0
    /\ queries = 0

\* start, stop and exec commands on a server that is already started
SpecHeld == InitHeld /\ [][Next]_vars

\* start and stop commands with status queries in between
NextStopInfo ==
    \/ \E t \in Tasks : StartBegin(t)
    \/ \E t \in Tasks : StartStore(t)
    \/ \E t \in Tasks : StopBegin(t)
    \/ \E t \in Tasks : StopExecute(t)
    \/ \E t \in Tasks : StopWake(t)
    \/ \E t \in Tasks : StopClear(t)
    \/ \E t \in Tasks : RconCreate(t)
    \/ \E t \in Tasks : RconLogin(t)
    \/ \E t \in Tasks : RconCommand(t)
    \/ \E t \in Tasks : RconStop(t)
    \/ \E t \in Tasks : InfoBegin(t)
    \/ \E t \in Tasks : InfoStatus(t)
    \/ \E t \in Tasks : Finish(t)
    \/ \E t \in Tasks : Return(t)
    \/ \E p \in Pids : ProcExit(p)
    \/ \E p \in Pids : ProcReaped(p)

SpecStopInfo == Init /\ [][NextStopInfo]_vars

\* start commands and the query commands
NextStatus ==
    \/ \E t \in Tasks : StartBegin(t)
    \/ \E t \in Tasks : StartStore(t)
    \/ \E t \in Tasks : InfoBegin(t)
    \/ \E t \in Tasks : InfoStatus(t)
    \/ \E t \in Tasks : PlayersBegin(t)
    \/ \E t \in Tasks : PlayersQuery(t)
    \/ \E t \in Tasks : Finish(t)
    \/ \E t \in Tasks : Return(t)
    \/ \E p \in Pids : ProcExit(p)
    \/ \E p \in Pids : ProcReaped(p)

SpecStatus == Init /\ [][NextStatus]_vars

\* every command of the cog
NextAll ==
    \/ Next
    \/ \E t \in Tasks : InfoBegin(t)
    \/ \E t \in Tasks : InfoStatus(t)
    \/ \E t \in Tasks : PlayersBegin(t)
    \/ \E t \in Tasks : PlayersQuery(t)
    \/ \E t \in Tasks : JoinBegin(t)

SpecAll == Init /\ [][NextAll]_vars
\* ---- properties ----

StopTasks == {t \in Tasks : op[t] = "stop"}
StartTasks == {t \in Tasks : op[t] = "start"}
LoginFailures == {"authfail", "refused", "dns"}

\* C1: a stop() that began with a handle held and has finished leaves the
\* handle absent (no start having spawned anything meanwhile), whatever the
\* outcome of the RCON "stop" command.
C1_StopEndsAbsent ==
    \A t \in StopTasks :
        (pc[t] = "done" /\ inv[t].held
           /\ Cardinality(Spawned) = inv[t].spawnedAtBegin) => ~_online

\* C2: a stop() whose RCON "stop" command failed at login has, once
\* finished, still waited the grace period and attempted the terminate.
C2_StopProceedsAfterRconFailure ==
    \A t \in StopTasks :
        (pc[t] = "done" /\ inv[t].login \in LoginFailures)
            => (inv[t].slept /\ inv[t].kills >= 1)

\* C3: in a finished stop() on a held handle, a process that had exited by
\* the end of the wait got no terminate call and no error was surfaced; a
\* process that had not exited got exactly one terminate call, after the wait.
C3_TerminateOnlyIfStillRunning ==
    \A t \in StopTasks :
        (pc[t] \in {"stop_151", "done"} /\ inv[t].held) =>
            /\ inv[t].atWake \in {"exited", "reaped"} =>
                   (inv[t].kills = 0 /\ err[t] = "none")
            /\ (inv[t].atWake = "alive"
                  \/ (inv[t].atWake = "na" /\ proc[inv[t].pid] = "alive")) =>
                   (inv[t].kills = 1 /\ inv[t].slept)

\* C4: of the stop() invocations that overlap on one handle at most one
\* calls kill, and none reaches the kill with the handle already cleared.
C4_OneTerminationAttempt ==
    \A t \in StopTasks :
        /\ inv[t].atWake # "cleared"
        /\ \A u \in inv[t].conc :
              ~(inv[t].kills >= 1 /\ inv[u].kills >= 1 /\ inv[u].pid = inv[t].pid)

\* the handles in existence: the one stored and the ones that pending
\* create_subprocess_shell calls are about to return
Handles ==
    {p \in Pids : p = server_proc
                    \/ \E t \in Tasks : pc[t] = "start_126" /\ inv[t].pid = p}

\* C5: at most one process handle exists at a time, under any interleaving
\* of start() invocations.
C5_AtMostOneHandle == Cardinality(Handles) <= 1

\* C6: isRunning() is false until a start() has spawned, refers to a spawned
\* process whenever true, is true right after start() stores the handle and
\* is kept true by every step of a start() invocation.
C6_IsRunningTracksHandle ==
    /\ [](Spawned = {} => ~_online)
    /\ [](_online => server_proc \in Spawned)
    /\ [][\A t \in Tasks :
            (pc[t] = "start_126" /\ pc'[t] = "start_129") => _online']_vars
    /\ [][\A t \in Tasks :
            (op'[t] = "start" /\ pc'[t] # pc[t] /\ _online) => _online']_vars

\* a first start() has stored its handle and a repeated one found it held
C6_Witness ==
    \E t, u \in StartTasks :
        /\ pc[t] = "start_129" /\ pc[u] = "start_131"
        /\ _online /\ server_proc = inv[t].pid

\* C7: start() on a held handle spawns nothing, leaves the handle as it is
\* and reports "already started" without failing; start() on an absent
\* handle spawns exactly one process and stores its handle.
C7_StartIdempotent ==
    /\ [](\A t \in StartTasks :
            IF inv[t].held
            THEN inv[t].spawns = 0 /\ reply[t] = <<MsgAlready>> /\ err[t] = "none"
            ELSE inv[t].spawns = 1 /\ inv[t].pid \in Spawned /\ err[t] = "none")
    /\ [][\A t \in Tasks :
            (op[t] = "none" /\ op'[t] = "start") =>
                IF _online
                THEN proc' = proc /\ server_proc' = server_proc
                ELSE Cardinality(Spawned') = Cardinality(Spawned) + 1]_vars
    /\ [][\A t \in StartTasks :
            (inv[t].held /\ pc'[t] # pc[t]) =>
                (proc' = proc /\ server_proc' = server_proc)]_vars
    /\ [][\A t \in StartTasks :
            (pc[t] = "start_126" /\ pc'[t] # pc[t]) =>
                (server_proc' = inv[t].pid /\ proc' = proc)]_vars

\* one start() spawned and stored its handle, a later one reported it held
C7_Witness ==
    \E t, u \in StartTasks :
        /\ pc[t] = "done" /\ ~inv[t].held /\ server_proc = inv[t].pid
        /\ pc[u] = "done" /\ inv[u].held /\ inv[u].pid = inv[t].pid
        /\ reply[u] = <<MsgAlready>>

\* C8: stop() on an absent handle opens no RCON session, does not wait,
\* calls no kill, changes neither handle, sessions nor processes, and
\* reports "not online".
C8_StopAbsentNoop ==
    /\ [](\A t \in StopTasks :
            ~inv[t].held =>
                /\ pc[t] \in {"stop_154", "done"}
                /\ inv[t].sid = None /\ inv[t].login = "none"
                /\ ~inv[t].slept /\ inv[t].kills = 0 /\ inv[t].atWake = "na"
                /\ reply[t] = <<MsgOffline>> /\ err[t] = "none")
    /\ [][\A t \in Tasks :
            (\/ op[t] = "none" /\ op'[t] = "stop" /\ ~_online
             \/ op[t] = "stop" /\ ~inv[t].held /\ pc'[t] # pc[t]) =>
                /\ server_proc' = server_proc /\ rcon' = rcon
                /\ sess' = sess /\ proc' = proc]_vars

\* a stop() on an absent handle has finished
C8_Witness ==
    \E t \in StopTasks :
        /\ pc[t] = "done" /\ ~inv[t].held
        /\ reply[t] = <<MsgOffline>> /\ ~_online

\* C9: whenever no _execute_mc_command is running, no RCON session is open
\* and none is stored in self.rcon.
C9_RconReleased == cur = None => (rcon = None /\ OpenSessions = {})

\* C10: an execute against an unreachable RCON endpoint (connection
\* refused, host unresolvable) ends in RCONFailedError.
C10_UnreachableIsRconFailed ==
    \A t \in Tasks :
        inv[t].login \in {"refused", "dns"} => inv[t].raised = "RCONFailedError"

QueryTasks == {t \in Tasks : op[t] \in {"info", "players"}}
QueryFailures == {"refused", "dns", "timeout"}

\* C11: a basicStatus() or fullQuery() that met an unresolvable host, a
\* refused connection or a timeout reports the unreachable outcome, and no
\* exception leaves the handler.
C11_QueryUnreachableTyped ==
    \A t \in QueryTasks :
        (inv[t].queried /\ inv[t].net \in QueryFailures) =>
            /\ inv[t].raised = "none" /\ err[t] = "none"
            /\ reply[t] \in {<<MsgInfoOffline>>, <<MsgQueryRefused>>}

\* what a handler sends when its query was answered
Snapshots == {<<MsgInfoOnline>>, <<MsgPlayers>>, <<MsgNoPlayers>>}

InfoTasks == {t \in Tasks : op[t] = "info"}

\* C13: a status query in progress can always take its next step when the
\* event loop is free, and when it is not, the handler that holds the loop is
\* in the synchronous RCON exchange and can take its own next step; a stop()
\* never holds the loop while it waits, so a query can be issued and run to
\* completion during the grace period.
C13_QueryNotBlockedByStop ==
    /\ \A u \in InfoTasks :
          pc[u] \in {"info_169", "info_179"} =>
              IF cur = None
              THEN ENABLED (InfoStatus(u) \/ Finish(u))
              ELSE ENABLED (RconCreate(cur) \/ RconLogin(cur)
                              \/ RconCommand(cur) \/ RconStop(cur))
    /\ \A t \in StopTasks :
          pc[t] \in {"stop_143", "stop_145", "stop_151"} =>
              /\ cur # t
              /\ (cur = None /\ calls < MaxCalls /\ queries < MaxQueries
                    /\ \E u \in Tasks : pc[u] = "idle")
                   => ENABLED (\E u \in Tasks : InfoBegin(u))

\* a status query issued while a stop() was in progress has finished and
\* that stop() is still in its grace-period wait
C13_Witness ==
    \E u \in InfoTasks :
        /\ pc[u] = "done" /\ inv[u].queried
        /\ \E t \in inv[u].conc : op[t] = "stop" /\ pc[t] = "stop_145"

\* C14: in one stop() the wait begins only when the RCON "stop" command has
\* been sent once and its session is closed; nothing of the wait or the
\* terminate happens before or during the RCON exchange; the terminate is
\* attempted only when the wait has ended.
C14_StopStepsOrdered ==
    \A t \in StopTasks :
        /\ (pc[t] = "stop_145" \/ inv[t].slept) =>
              /\ inv[t].login = "ok" /\ inv[t].command \in {"empty", "text"}
              /\ sess[inv[t].sid].st = "closed" /\ sess[inv[t].sid].cmds = 1
              /\ rcon # inv[t].sid
        /\ pc[t] \in {"stop_143", "init_rcon", "login", "command", "stop_rcon", "stop_145"} =>
              (~inv[t].slept /\ inv[t].kills = 0 /\ inv[t].atWake = "na")
        /\ (inv[t].kills >= 1 \/ inv[t].atWake # "na") => inv[t].slept

\* a stop() has gone through the RCON exchange and the wait and has called kill
C14_Witness ==
    \E t \in StopTasks :
        /\ pc[t] = "done" /\ inv[t].slept /\ inv[t].kills = 1
        /\ inv[t].atWake = "alive" /\ sess[inv[t].sid].st = "closed"

\* C15: when the login is rejected, execute fails with the RCONFailedError
\* "Invalid Authentication" and no command goes over the session.
C15_AuthRejectedNoCommand ==
    \A t \in Tasks :
        inv[t].login = "authfail" =>
            /\ inv[t].raised = "RCONFailedError"
            /\ inv[t].command = "none" /\ sess[inv[t].sid].cmds = 0
            /\ pc[t] \in {"exec_248", "done"}
            /\ op[t] = "exec" => (reply[t] = <<MsgBadAuth>> /\ err[t] = "none")
            /\ op[t] = "stop" => err[t] = "RCONFailedError"

\* an exec whose login was rejected is reporting the authentication error
C15_Witness ==
    \E t \in Tasks :
        /\ op[t] = "exec" /\ pc[t] = "exec_248"
        /\ inv[t].login = "authfail" /\ reply[t] = <<MsgBadAuth>>

\* C16: every session sees at most one login attempt and at most one
\* command; the execute that is running works on the session it created,
\* which is fresh when the login starts; no two invocations share a session;
\* no invocation creates more than one.
C16_OneShotSessions ==
    /\ \A s \in Sids :
          /\ sess[s].logins <= 1 /\ sess[s].cmds <= 1
          /\ sess[s].cmds = 1 => sess[s].logins = 1
    /\ \A t \in Tasks :
          /\ pc[t] \in {"login", "command", "stop_rcon"} => rcon = inv[t].sid
          /\ pc[t] = "login" => sess[rcon] = [NoSess EXCEPT !.st = "new"]
          /\ pc[t] = "command" => (sess[rcon].cmds = 0 /\ sess[rcon].st = "authed")
          /\ \A u \in Tasks :
                (u # t /\ inv[t].sid # None) => inv[u].sid # inv[t].sid
    /\ Cardinality(Created) <= calls

\* two executes have each sent their command over a session of their own
C16_Witness ==
    \E t, u \in Tasks :
        /\ t # u /\ inv[t].sid # None /\ inv[u].sid # None
        /\ sess[inv[t].sid].cmds = 1 /\ sess[inv[u].sid].cmds = 1
        /\ inv[t].command = "text" /\ inv[u].command = "text"
        /\ pc[t] = "done" /\ pc[u] \in {"stop_145", "exec_246", "done"}

\* C17: the handle changes only in a step of a start() invocation, from
\* absent to held, or in a step of a stop() invocation, from held to absent;
\* no other handler and no exit of the process changes it.
C17_HandleOnlyByStartStop ==
    [][server_proc' # server_proc =>
          \E t \in Tasks :
              /\ pc'[t] # pc[t]
              /\ \/ op[t] = "start" /\ server_proc = None /\ server_proc' # None
                 \/ op[t] = "stop" /\ server_proc # None /\ server_proc' = None]_vars

\* C18: a stop() calls kill on, and clears, only the handle it found when it
\* began, never that of a process spawned after it began.
C18_StopOnlyOwnProcess ==
    [][\A t \in StopTasks :
          (pc[t] \in {"stop_145", "stop_151"} /\ pc'[t] # pc[t]) =>
              ~(server_proc # None /\ server_proc # inv[t].pid
                  /\ server_proc > inv[t].spawnedAtBegin)]_vars
====
